---------------------------- MODULE Spec2Model ----------------------------
(***************************************************************************)
(* Model of the grating-coupler simulation scripts:                        *)
(*   - fiber_sweep_cores.py : run() and the process-pool sweep             *)
(*   - plot_sims.py         : the two plotting loops                       *)
(*   - get_simulation_fiber.py : geometry construction and the lazily      *)
(*                               initialised eigenmode query               *)
(*                                                                         *)
(* Numbers.  The source computes in floating point; the model computes in  *)
(* exact integer arithmetic.  Lengths are counted in units of 5 nm         *)
(* (1 um = 200 units), refractive indices in hundredths, the fill factor   *)
(* in percent.  Every length parameter is drawn even, so that each "/ 2"   *)
(* of the source is exact.                                                 *)
(***************************************************************************)
EXTENDS Integers, Sequences, FiniteSets, TLC

VARIABLES
    \* ---- run(): direct calls (fiber_sweep_cores.py 7-14)
    calls,          \* the arguments of the run() calls made so far
    spawned,        \* the commands handed to subprocess.call, in order
    \* ---- the pool sweep (fiber_sweep_cores.py 20-24)
    cpuCount,       \* multiprocessing.cpu_count()
    poolPc,         \* "mapping" while starmap is in progress, then "done"
    nextTask,       \* index of the next task of the task list to hand out
    worker,         \* worker -> index of the task it executes, 0 when idle
    taskStatus,     \* task -> "pending" | "called" | "spawned" | "exited" | "returned"
    launches,       \* task -> number of subprocesses spawned for it
    taskCmd,        \* task -> the command spawned for it (<<>> before)
    exitCode,       \* task -> exit status of its subprocess (-1 before)
    files,          \* set of [base, writer]: file pairs written, by which task
    \* ---- plotting (plot_sims.py)
    plotFn,         \* "max_power" | "spectrum": the function being run
    plotPc,         \* "loop" | "shown" | "error"
    dir,            \* the data directory: file name -> content
    pending,        \* the *.csv names glob has not yielded yet
    visited,        \* the *.csv names whose iteration completed, in order
    fiber_xpositions,
    s21_max,
    curves,         \* the labels of the curves plotted inside the loop
    wavelength_points,  \* argument of plot_fiber_xposition_spectrum
    \* ---- get_simulation_fiber (get_simulation_fiber.py 71-413)
    gPc,            \* "idle" | "build" | "etch": position of the current call
    gParams,        \* the arguments of the current (or last) call
    widths,         \* the local lists after lines 119-120
    gaps,
    settings,       \* the settings dict
    cell_size,
    geometry,       \* the shape list
    x,              \* the running offset of the etch loop
    zipped,         \* how many (width, gap) pairs the loop has consumed
    returned,       \* <<the dict the call just finished returned>>, else None
    remembered,     \* None, or <<arguments and result of one call, and how many
                    \* calls ago it was made (0, 1, 2 for two or more)>>
    \* ---- get_port_1D_eigenmode (get_simulation_fiber.py 416-491)
    simDicts,       \* dict -> [initialized]: the simulation dicts in use
    ePc,            \* "idle" | "solve" | "waveguide" | "fiber" | "error"
    eCur,           \* the dict and arguments of the call in progress
    eCalls,         \* dict -> number of calls started on it
    initSimCalls,   \* dict -> number of sim.init_sim() invocations
    initSimDuring,  \* dict -> the calls (by number) that invoked init_sim
    solves,         \* dict -> number of sim.get_eigenmode() invocations
    solvedUninit    \* dict -> an eigenmode was solved while not initialized

runVars   == <<calls, spawned>>
sweepVars == <<cpuCount, poolPc, nextTask, worker, taskStatus, launches,
               taskCmd, exitCode, files>>
plotVars  == <<plotFn, plotPc, dir, pending, visited, fiber_xpositions,
               s21_max, curves, wavelength_points>>
geomVars  == <<gPc, gParams, widths, gaps, settings, cell_size, geometry, x,
               zipped, returned, remembered>>
eigenVars == <<simDicts, ePc, eCur, eCalls, initSimCalls, initSimDuring,
               solves, solvedUninit>>
vars == <<runVars, sweepVars, plotVars, geomVars, eigenVars>>

-----------------------------------------------------------------------------
(* Small helpers *)

Min(a, b) == IF a <= b THEN a ELSE b

Abs(a) == IF a < 0 THEN -a ELSE a

Half(a) == a \div 2

Range(s) == {s[i] : i \in 1..Len(s)}

RECURSIVE JoinStr(_, _)
\* sep.join(strs)
JoinStr(strs, sep) ==
    IF Len(strs) = 0 THEN ""
    ELSE IF Len(strs) = 1 THEN strs[1]
    ELSE strs[1] \o sep \o JoinStr(Tail(strs), sep)

RECURSIVE SumSeq(_, _)
\* s[1] + ... + s[n]
SumSeq(s, n) == IF n = 0 THEN 0 ELSE SumSeq(s, n - 1) + s[n]

-----------------------------------------------------------------------------
(* Module constants of get_simulation_fiber.py, in model units *)

nSi == 347
nSiO2 == 144

\* Optional[...] values: None is <<>>, a given value v is <<v>>.
None == <<>>
Some(v) == <<v>>

\* The default arguments of get_simulation_fiber (lines 73-106).
DefaultParams ==
    [ period |-> 132, fill_factor |-> 50, widths |-> None, gaps |-> None,
      n_periods |-> 30, etch_depth |-> 14,
      fiber_angle_deg |-> 20, fiber_xposition |-> 200,
      fiber_core_diameter |-> 2080, fiber_numerical_aperture |-> 14,
      fiber_nclad |-> nSiO2,
      ncore |-> nSi, ncladtop |-> nSiO2, ncladbottom |-> nSiO2,
      nsubstrate |-> nSi,
      pml_thickness |-> 200, substrate_thickness |-> 200,
      bottom_clad_thickness |-> 400, core_thickness |-> 44,
      top_clad_thickness |-> 400, air_gap_thickness |-> 200,
      fiber_thickness |-> 400,
      res |-> 64, wavelength_min |-> 280, wavelength_max |-> 340,
      wavelength_points |-> 150, eps_averaging |-> FALSE,
      fiber_port_y_offset_from_air |-> 200,
      waveguide_port_x_offset_from_grating_start |-> 2000,
      fiber_port_x_size |-> None ]

\* widths = widths or n_periods * [period * fill_factor]   (line 119)
RepeatList(n, v) == [i \in 1..(IF n > 0 THEN n ELSE 0) |-> v]

EffWidths(P) ==
    IF P.widths = None \/ P.widths[1] = <<>>
    THEN RepeatList(P.n_periods, (P.period * P.fill_factor) \div 100)
    ELSE P.widths[1]

\* gaps = gaps or n_periods * [period * (1 - fill_factor)]   (line 120)
EffGaps(P) ==
    IF P.gaps = None \/ P.gaps[1] = <<>>
    THEN RepeatList(P.n_periods, (P.period * (100 - P.fill_factor)) \div 100)
    ELSE P.gaps[1]

\* settings = dict(...)   (lines 122-150): period, fill_factor and
\* fiber_port_x_size are not recorded; widths and gaps are the effective lists.
Settings(P) ==
    [ widths |-> EffWidths(P), gaps |-> EffGaps(P),
      n_periods |-> P.n_periods, etch_depth |-> P.etch_depth,
      fiber_angle_deg |-> P.fiber_angle_deg,
      fiber_xposition |-> P.fiber_xposition,
      fiber_core_diameter |-> P.fiber_core_diameter,
      fiber_numerical_aperture |-> P.fiber_numerical_aperture,
      fiber_nclad |-> P.fiber_nclad,
      ncore |-> P.ncore, ncladtop |-> P.ncladtop,
      ncladbottom |-> P.ncladbottom, nsubstrate |-> P.nsubstrate,
      pml_thickness |-> P.pml_thickness,
      substrate_thickness |-> P.substrate_thickness,
      bottom_clad_thickness |-> P.bottom_clad_thickness,
      core_thickness |-> P.core_thickness,
      top_clad_thickness |-> P.top_clad_thickness,
      air_gap_thickness |-> P.air_gap_thickness,
      fiber_thickness |-> P.fiber_thickness,
      res |-> P.res, wavelength_min |-> P.wavelength_min,
      wavelength_max |-> P.wavelength_max,
      wavelength_points |-> P.wavelength_points,
      eps_averaging |-> P.eps_averaging,
      fiber_port_y_offset_from_air |-> P.fiber_port_y_offset_from_air,
      waveguide_port_x_offset_from_grating_start |->
          P.waveguide_port_x_offset_from_grating_start ]

\* sorted(kwargs) for the keys of the settings dict (line 49).
SortedSettingsKeys ==
    << "air_gap_thickness", "bottom_clad_thickness", "core_thickness",
       "eps_averaging", "etch_depth", "fiber_angle_deg",
       "fiber_core_diameter", "fiber_nclad", "fiber_numerical_aperture",
       "fiber_port_y_offset_from_air", "fiber_thickness", "fiber_xposition",
       "gaps", "n_periods", "ncladbottom", "ncladtop", "ncore", "nsubstrate",
       "pml_thickness", "res", "substrate_thickness", "top_clad_thickness",
       "waveguide_port_x_offset_from_grating_start", "wavelength_max",
       "wavelength_min", "wavelength_points", "widths" >>

\* to_string(value) (lines 57-64): a list is its items joined by "_",
\* anything else is str(value).  The value's type is read off its key.
to_string(key, value) ==
    IF key \in {"widths", "gaps"}
    THEN JoinStr([i \in 1..Len(value) |-> ToString(value[i])], "_")
    ELSE IF key = "eps_averaging"
    THEN (IF value THEN "True" ELSE "False")
    ELSE ToString(value)

\* dict_to_name(**settings) (lines 45-54): key and value text, keys sorted,
\* joined by "_".  No value of the settings dict is None.
dict_to_name(S) ==
    JoinStr([i \in 1..Len(SortedSettingsKeys) |->
                SortedSettingsKeys[i]
                    \o to_string(SortedSettingsKeys[i], S[SortedSettingsKeys[i]])],
            "_")

\* settings_string / settings_hash (lines 151-152).  md5 is not computed:
\* the digest is a tagged copy of the text it is taken of, so equal texts
\* have equal digests and the model adds no collision of its own.
settings_hash(S) == <<"md5", dict_to_name(S)>>

-----------------------------------------------------------------------------
(* run()  (fiber_sweep_cores.py 7-14) *)

RunDefaultKey == "fiber_xposition"
RunDefaultValue == 0
RunDefaultNcores == 6

\* (mutant) value and worker count change places.
CommandSwapped(key, value, ncores) ==
    << "mpirun", "-np", ToString(value), "python", "fiber.py",
       "--" \o key \o "=" \o ToString(ncores) >>

\* /bin/sh splits the command text at blanks: the model keeps the text as the
\* word list the shell makes of it.
\* command = f"mpirun -np {ncores} python fiber.py --{key}={value}"  (line 12)
Command(key, value, ncores) ==
    << "mpirun", "-np", ToString(ncores), "python", "fiber.py",
       "--" \o key \o "=" \o ToString(value) >>

\* Inputs of the direct calls of run().
MaxCalls == 2
RunKeys == {"fiber_xposition", "fiber_angle_deg", "ncores"}
RunValues == {-5, 0, 10}
RunNcores == {1, 6, 16}

RunInit ==
    /\ calls = <<>>
    /\ spawned = <<>>

\* One call run(key, value, ncores): build the command, print it, run it.
Run(key, value, ncores) ==
    /\ Len(calls) < MaxCalls
    /\ calls' = Append(calls, [key |-> key, value |-> value, ncores |-> ncores])
    /\ spawned' = Append(spawned, Command(key, value, ncores))

RunCall ==
    /\ \E key \in RunKeys, value \in RunValues, ncores \in RunNcores :
          Run(key, value, ncores)
    /\ UNCHANGED <<sweepVars, plotVars, geomVars, eigenVars>>


-----------------------------------------------------------------------------
(* The sweep  (fiber_sweep_cores.py 20-24) *)

\* ncores_sweep = [1, 2, 4, 8, 16]   (line 21)
ncores_sweep == <<1, 2, 4, 8, 16>>

\* [("ncores", ncores) for ncores in ncores_sweep]   (line 24): each tuple is
\* the positional argument list of one run() call, so it binds key and value.
TaskList == [i \in 1..Len(ncores_sweep) |-> <<"ncores", ncores_sweep[i]>>]

NumTasks == Len(TaskList)
Tasks == 1..NumTasks

\* multiprocessing.cpu_count() is at least 1; the model tries 1..MaxCpu.
MaxCpu == 3

SweepInit ==
    /\ cpuCount \in 1..MaxCpu
    /\ poolPc = "mapping"
    /\ nextTask = 1
    /\ worker = [w \in 1..MaxCpu |-> 0]
    /\ taskStatus = [t \in Tasks |-> "pending"]
    /\ launches = [t \in Tasks |-> 0]
    /\ taskCmd = [t \in Tasks |-> <<>>]
    /\ exitCode = [t \in Tasks |-> -1]
    /\ files = {}

\* An idle worker of the pool takes the next task of the list and calls
\* run(*args) with it.
PoolDispatch(w) ==
    /\ poolPc = "mapping"
    /\ w <= cpuCount
    /\ worker[w] = 0
    /\ nextTask <= NumTasks
    /\ worker' = [worker EXCEPT ![w] = nextTask]
    /\ taskStatus' = [taskStatus EXCEPT ![nextTask] = "called"]
    /\ nextTask' = nextTask + 1
    /\ UNCHANGED <<cpuCount, poolPc, launches, taskCmd, exitCode, files>>

\* The command run(key, value) builds for a task: the tuple fills key and
\* value, ncores keeps its default (lines 7-12).
TaskCommand(t) == Command(TaskList[t][1], TaskList[t][2], RunDefaultNcores)

\* run(), lines 12-14, up to the start of the subprocess.
RunSpawn(w) ==
    /\ worker[w] # 0
    /\ taskStatus[worker[w]] = "called"
    /\ taskCmd' = [taskCmd EXCEPT ![worker[w]] = TaskCommand(worker[w])]
    /\ launches' = [launches EXCEPT ![worker[w]] = @ + 1]
    /\ taskStatus' = [taskStatus EXCEPT ![worker[w]] = "spawned"]
    /\ UNCHANGED <<cpuCount, poolPc, nextTask, worker, exitCode, files>>

\* The simulation script applies a command-line override to the simulation
\* parameters: a key that names a parameter replaces it, any other key
\* changes no parameter.
ApplyOverride(P, key, value) ==
    IF key \in DOMAIN P THEN [P EXCEPT ![key] = value] ELSE P

\* The base filename of the result/settings pair of a task: the hash of the
\* settings of its simulation.
OutputBase(t) ==
    settings_hash(Settings(ApplyOverride(DefaultParams, TaskList[t][1],
                                         TaskList[t][2])))

HasWritten(t) == \E f \in files : f.writer = t

\* The running simulation writes its result/settings pair.
SimWrite(t) ==
    /\ taskStatus[t] = "spawned"
    /\ ~HasWritten(t)
    /\ files' = files \cup {[base |-> OutputBase(t), writer |-> t]}
    /\ UNCHANGED <<cpuCount, poolPc, nextTask, worker, taskStatus, launches,
                   taskCmd, exitCode>>

\* The subprocess ends: with status 0 after it wrote its pair, or with a
\* failure status at any moment (the launcher or the script failing, the
\* script refusing the override).
SimExit(t, code) ==
    /\ taskStatus[t] = "spawned"
    /\ code = 0 => HasWritten(t)
    /\ exitCode' = [exitCode EXCEPT ![t] = code]
    /\ taskStatus' = [taskStatus EXCEPT ![t] = "exited"]
    /\ UNCHANGED <<cpuCount, poolPc, nextTask, worker, launches, taskCmd, files>>

\* (mutant) a failed subprocess makes run() start over.
RunReturnRetry(w) ==
    /\ worker[w] # 0
    /\ taskStatus[worker[w]] = "exited"
    /\ IF exitCode[worker[w]] = 0
       THEN /\ taskStatus' = [taskStatus EXCEPT ![worker[w]] = "returned"]
            /\ worker' = [worker EXCEPT ![w] = 0]
       ELSE /\ taskStatus' = [taskStatus EXCEPT ![worker[w]] = "called"]
            /\ worker' = worker
    /\ UNCHANGED <<cpuCount, poolPc, nextTask, launches, taskCmd, exitCode, files>>

\* subprocess.call returns the exit status, run() drops it and returns None
\* (line 14): the worker is idle again whatever the status.
RunReturn(w) ==
    /\ worker[w] # 0
    /\ taskStatus[worker[w]] = "exited"
    /\ taskStatus' = [taskStatus EXCEPT ![worker[w]] = "returned"]
    /\ worker' = [worker EXCEPT ![w] = 0]
    /\ UNCHANGED <<cpuCount, poolPc, nextTask, launches, taskCmd, exitCode, files>>

AllReturned == \A t \in Tasks : taskStatus[t] = "returned"

\* p.starmap returns once every task of the list has returned (line 24).
StarmapReturn ==
    /\ poolPc = "mapping"
    /\ AllReturned
    /\ poolPc' = "done"
    /\ UNCHANGED <<cpuCount, nextTask, worker, taskStatus, launches, taskCmd,
                   exitCode, files>>

SweepDispatch == (\E w \in 1..MaxCpu : PoolDispatch(w)) /\ UNCHANGED <<runVars, plotVars, geomVars, eigenVars>>
SweepSpawn == (\E w \in 1..MaxCpu : RunSpawn(w)) /\ UNCHANGED <<runVars, plotVars, geomVars, eigenVars>>
SweepWrite == (\E t \in Tasks : SimWrite(t)) /\ UNCHANGED <<runVars, plotVars, geomVars, eigenVars>>
SweepExit == (\E t \in Tasks, code \in {0, 1} : SimExit(t, code)) /\ UNCHANGED <<runVars, plotVars, geomVars, eigenVars>>
SweepReturn == (\E w \in 1..MaxCpu : RunReturn(w)) /\ UNCHANGED <<runVars, plotVars, geomVars, eigenVars>>
SweepFinish == StarmapReturn /\ UNCHANGED <<runVars, plotVars, geomVars, eigenVars>>

SweepNext ==
    \/ SweepDispatch
    \/ SweepSpawn
    \/ SweepWrite
    \/ SweepExit
    \/ SweepReturn
    \/ SweepFinish

-----------------------------------------------------------------------------
(* Plotting  (plot_sims.py) *)

\* A file name is the list of its dot-separated parts: "a.1.csv" is
\* <<"a", "1", "csv">>.  The directory holds at most MaxFiles base names.
MaxFiles == 2
AllStems == << <<"a">>, <<"a", "1">>, <<"b">>, <<"b", "1">> >>
Stems == {AllStems[i] : i \in 1..Min(MaxFiles, Len(AllStems))}

\* Path.with_suffix(suffix) (line 15): the last part is replaced.
\* (mutant) everything after the first dot is replaced.
with_suffix_first_dot(name, suffix) == <<name[1], suffix>>

with_suffix(name, suffix) == SubSeq(name, 1, Len(name) - 1) \o <<suffix>>

\* dirpath.glob("*.csv") (line 14): the names that end in .csv.
Glob(d, suffix) == {n \in DOMAIN d : Len(n) >= 2 /\ n[Len(n)] = suffix}

\* Contents.  A .csv file is malformed or holds the column s21m; a value of
\* the column is a power of ten, kept as its exponent: <<"1e", e>> is 10^e.
\* A .yml file is malformed or holds settings.fiber_xposition.
CsvContents ==
    { [ok |-> FALSE, s21m |-> <<>>] }
    \cup { [ok |-> TRUE, s21m |-> r] :
             r \in { << <<"1e", -1>> >>, << <<"1e", -3>>, <<"1e", -2>> >> } }

YmlContents ==
    { [ok |-> FALSE, fiber_xposition |-> 0] }
    \cup { [ok |-> TRUE, fiber_xposition |-> xp] : xp \in {-5, 5} }

\* What one base name contributes to the directory: a .csv or none, a .yml
\* or none.
StemFiles(stem) ==
    { c \cup y :
        c \in {{}} \cup { {<<stem \o <<"csv">>, cc>>} : cc \in CsvContents },
        y \in {{}} \cup { {<<stem \o <<"yml">>, yc>>} : yc \in YmlContents } }

\* The directory as a function, from a set of <<name, content>> pairs.
DirOf(pairs) ==
    [n \in {p[1] : p \in pairs} |-> (CHOOSE p \in pairs : p[1] = n)[2]]

RECURSIVE Directories(_)
Directories(stems) ==
    IF stems = {} THEN {{}}
    ELSE LET st == CHOOSE e \in stems : TRUE
         IN  { a \cup b : a \in StemFiles(st), b \in Directories(stems \ {st}) }

\* np.log10 of a power of ten.
log10(v) == v[2]

\* s21 = 10 * np.log10(df.s21m)   (line 18)
S21(csv) == [i \in 1..Len(csv.s21m) |-> 10 * log10(csv.s21m[i])]

\* max(s21)
MaxOf(s) == CHOOSE m \in Range(s) : \A v \in Range(s) : v <= m

PlotInit ==
    /\ plotFn \in {"max_power", "spectrum"}
    /\ wavelength_points \in {1, 2}
    /\ \E pairs \in Directories(Stems) : dir = DirOf(pairs)
    /\ pending = Glob(dir, "csv")
    /\ plotPc = "loop"
    /\ visited = <<>>
    /\ fiber_xpositions = <<>>
    /\ s21_max = <<>>
    /\ curves = <<>>

\* OmegaConf.load(filepath_yaml) raises when the file is missing or is not
\* a settings file (line 16); pd.read_csv(filepath_csv) and the column access
\* raise on a malformed result file (lines 17-18).
YamlLoads(name) == name \in DOMAIN dir /\ dir[name].ok
CsvReads(name) == dir[name].ok

\* plt.plot(wavelengths, s21) (line 50) raises when the two lengths differ.
PlotRaises(fn, s21) == fn = "spectrum" /\ Len(s21) # wavelength_points

\* (mutant) a pair that cannot be read is skipped.
LoopBodySkipping(filepath_csv) ==
    /\ plotPc = "loop"
    /\ filepath_csv \in pending
    /\ pending' = pending \ {filepath_csv}
    /\ LET filepath_yaml == with_suffix(filepath_csv, "yml")
       IN  IF YamlLoads(filepath_yaml) /\ CsvReads(filepath_csv)
           THEN /\ fiber_xpositions' =
                      Append(fiber_xpositions, dir[filepath_yaml].fiber_xposition)
                /\ s21_max' = Append(s21_max, MaxOf(S21(dir[filepath_csv])))
                /\ visited' = Append(visited, filepath_csv)
           ELSE UNCHANGED <<fiber_xpositions, s21_max, visited>>
    /\ UNCHANGED <<plotFn, plotPc, dir, curves, wavelength_points>>

\* One iteration of the loop over glob("*.csv") (lines 14-22 and 41-50): the
\* first failing read ends the function with the exception.
LoopBody(filepath_csv) ==
    /\ plotPc = "loop"
    /\ filepath_csv \in pending
    /\ pending' = pending \ {filepath_csv}
    /\ LET filepath_yaml == with_suffix(filepath_csv, "yml")
       IN  IF ~YamlLoads(filepath_yaml) \/ ~CsvReads(filepath_csv)
           THEN /\ plotPc' = "error"
                /\ UNCHANGED <<fiber_xpositions, s21_max, visited, curves>>
           ELSE LET s21 == S21(dir[filepath_csv])
                    fiber_xposition == dir[filepath_yaml].fiber_xposition
                IN  /\ fiber_xpositions' = Append(fiber_xpositions, fiber_xposition)
                    /\ s21_max' = Append(s21_max, MaxOf(s21))
                    /\ IF PlotRaises(plotFn, s21)
                       THEN /\ plotPc' = "error"
                            /\ UNCHANGED <<visited, curves>>
                       ELSE /\ plotPc' = plotPc
                            /\ visited' = Append(visited, filepath_csv)
                            /\ curves' = IF plotFn = "spectrum"
                                         THEN Append(curves, fiber_xposition)
                                         ELSE curves
    /\ UNCHANGED <<plotFn, dir, wavelength_points>>

\* After the loop: the axis labels and plt.show() (lines 24-27 and 52-55).
Show ==
    /\ plotPc = "loop"
    /\ pending = {}
    /\ plotPc' = "shown"
    /\ UNCHANGED <<plotFn, dir, pending, visited, fiber_xpositions, s21_max,
                   curves, wavelength_points>>

PlotLoop == (\E n \in pending : LoopBody(n)) /\ UNCHANGED <<runVars, sweepVars, geomVars, eigenVars>>
PlotShow == Show /\ UNCHANGED <<runVars, sweepVars, geomVars, eigenVars>>

PlotNext ==
    \/ PlotLoop
    \/ PlotShow

-----------------------------------------------------------------------------
(* get_simulation_fiber  (get_simulation_fiber.py 71-413) *)

\* mp.inf, and the two lengths of the fiber blocks (lines 233-234, in units).
Inf == 1000000000
fiber_clad == 24000
hfiber_geom == 40000
AirIndex == 100

\* mp.Medium(index=n): the medium of relative permittivity n^2.
Medium(index) == [epsilon |-> index * index]

\* tan of the fiber angle, for the angles the model draws.
Tan(deg) == CASE deg = 0 -> 0 [] deg = 45 -> 1

\* sz (lines 158-167)
Sz(P) ==
    P.pml_thickness + P.substrate_thickness + P.bottom_clad_thickness
    + P.core_thickness + P.top_clad_thickness + P.air_gap_thickness
    + P.fiber_thickness + P.pml_thickness

\* fiber_port_y as first computed (lines 170-176)
FiberPortYForOffset(P) ==
    Half(-Sz(P)) + P.core_thickness + P.top_clad_thickness
    + P.air_gap_thickness + P.fiber_port_y_offset_from_air

\* fiber_port_x_offset_from_angle (line 177)
FiberPortXOffsetFromAngle(P) ==
    Abs(FiberPortYForOffset(P) * Tan(P.fiber_angle_deg))

\* sxy (lines 178-182) and cell_size (line 200)
Sxy(P) ==
    Half(7 * P.fiber_core_diameter) + 2 * P.pml_thickness
    + 2 * FiberPortXOffsetFromAngle(P)

CellSize(P) == <<Sxy(P), Sz(P)>>

\* grating_start (lines 195-197)
GratingStart(P) == -P.fiber_xposition

\* fiber_port_y as assigned again, and fiber_port_center (lines 203-212)
FiberPortY(P) ==
    Half(-Sz(P))
    + (P.pml_thickness + P.substrate_thickness + P.bottom_clad_thickness
       + P.core_thickness + P.top_clad_thickness + P.air_gap_thickness
       + P.fiber_port_y_offset_from_air)

FiberPortCenter(P) == <<FiberPortXOffsetFromAngle(P), FiberPortY(P)>>

\* waveguide_port_y (lines 216-222)
WaveguidePortY(P) ==
    Half(-Sz(P))
    + (P.pml_thickness + P.substrate_thickness
       + Half(P.bottom_clad_thickness) + Half(P.core_thickness)
       + Half(P.top_clad_thickness))

\* mp.Block(material, center, size[, e1, e2]): rot is the angle by which the
\* axes e1, e2 are turned (0 for the default axes).
Block(material, center, size, rot) ==
    [material |-> material, center |-> center, size |-> size, rot |-> rot]

\* The fiber blocks (lines 238-255)
FiberCladBlock(P) ==
    Block(Medium(P.fiber_nclad),
          <<0, WaveguidePortY(P) - Half(P.core_thickness)>>,
          <<fiber_clad, hfiber_geom>>, -P.fiber_angle_deg)

\* fiber_ncore is sqrt(na^2 + nclad^2) (line 190): the medium of that index
\* has permittivity na^2 + nclad^2.
FiberCoreBlock(P) ==
    Block([epsilon |-> P.fiber_numerical_aperture * P.fiber_numerical_aperture
                        + P.fiber_nclad * P.fiber_nclad],
          <<0, 0>>,
          <<P.fiber_core_diameter, hfiber_geom>>, -P.fiber_angle_deg)

\* Air gap (lines 258-275)
AirGapBlock(P) ==
    Block(Medium(AirIndex),
          <<0, Half(-Sz(P))
               + (P.pml_thickness + P.substrate_thickness
                  + P.bottom_clad_thickness + P.core_thickness
                  + P.top_clad_thickness + Half(P.air_gap_thickness))>>,
          <<Inf, P.air_gap_thickness>>, 0)

\* Top cladding (lines 277-293)
TopCladBlock(P) ==
    Block(Medium(P.ncladtop),
          <<0, Half(-Sz(P))
               + (P.pml_thickness + P.substrate_thickness
                  + P.bottom_clad_thickness + Half(P.core_thickness)
                  + Half(P.top_clad_thickness))>>,
          <<Inf, P.core_thickness + P.top_clad_thickness>>, 0)

\* Bottom cladding (lines 295-305)
BottomCladBlock(P) ==
    Block(Medium(P.ncladbottom),
          <<0, Half(-Sz(P))
               + (P.pml_thickness + P.substrate_thickness
                  + Half(P.bottom_clad_thickness))>>,
          <<Inf, P.bottom_clad_thickness>>, 0)

\* Waveguide core (lines 308-323)
WaveguideBlock(P) ==
    Block(Medium(P.ncore),
          <<0, Half(-Sz(P))
               + (P.pml_thickness + P.substrate_thickness
                  + P.bottom_clad_thickness + Half(P.core_thickness))>>,
          <<Inf, P.core_thickness>>, 0)

\* (mutant) the block is centred on the running offset itself.
EtchBlockAtOffset(P, xk, gap) ==
    Block(Medium(P.ncladtop),
          <<xk, Half(-Sz(P))
                + (P.pml_thickness + P.substrate_thickness
                   + P.bottom_clad_thickness + P.core_thickness
                   - Half(P.etch_depth))>>,
          <<gap, P.etch_depth>>, 0)

\* One grating etch (lines 328-344)
EtchBlock(P, xk, gap) ==
    Block(Medium(P.ncladtop),
          <<xk + Half(gap),
            Half(-Sz(P))
            + (P.pml_thickness + P.substrate_thickness
               + P.bottom_clad_thickness + P.core_thickness
               - Half(P.etch_depth))>>,
          <<gap, P.etch_depth>>, 0)

\* Substrate (lines 348-354)
SubstrateBlock(P) ==
    Block(Medium(P.nsubstrate),
          <<0, Half(-Sz(P)) + Half(P.pml_thickness)
               + Half(P.substrate_thickness)>>,
          <<Inf, P.pml_thickness + P.substrate_thickness>>, 0)

\* (mutant) the waveguide core is appended before the claddings.
FixedBlocksCoreFirst(P) ==
    << FiberCladBlock(P), FiberCoreBlock(P), AirGapBlock(P),
       WaveguideBlock(P), TopCladBlock(P), BottomCladBlock(P) >>

\* The six appends of lines 238-323, in the order of the source.
FixedBlocks(P) ==
    << FiberCladBlock(P), FiberCoreBlock(P), AirGapBlock(P),
       TopCladBlock(P), BottomCladBlock(P), WaveguideBlock(P) >>

\* (mutant) the shape list of the call before is kept.
GeometryKept == geometry

\* geometry = []   (line 236)
GeometryStart == <<>>

\* The arguments the model draws: lists of up to MaxPeriods items, every
\* length even.
MaxPeriods == 2
WidthItems == <<20, 40, 60, 20>>
GapItems == <<60, 80, 20, 60>>

Prefixes(items) ==
    {Some(SubSeq(items, 1, n)) : n \in 0..Min(MaxPeriods, Len(items))}

GeomParams ==
    { [DefaultParams EXCEPT !.period = 200, !.fill_factor = ff,
                            !.n_periods = n, !.widths = w, !.gaps = g,
                            !.fiber_xposition = xp,
                            !.fiber_angle_deg = 45] :
        ff \in {25}, n \in {0, MaxPeriods},
        w \in {None} \cup Prefixes(WidthItems),
        g \in {None} \cup Prefixes(GapItems),
        xp \in {-100, 200} }

GeomInit ==
    /\ gPc = "idle"
    /\ gParams = DefaultParams
    /\ widths = <<>>
    /\ gaps = <<>>
    /\ settings = <<>>
    /\ cell_size = <<0, 0>>
    /\ geometry = <<>>
    /\ x = 0
    /\ zipped = 0
    /\ returned = None
    /\ remembered = None

\* A call: the computations of lines 116-236.  The locals of the loop are
\* not bound yet (0 in the model), and no dict has been returned yet.
GeomBegin(P) ==
    /\ gPc = "idle"
    /\ gPc' = "build"
    /\ gParams' = P
    /\ widths' = EffWidths(P)
    /\ gaps' = EffGaps(P)
    /\ settings' = Settings(P)
    /\ cell_size' = CellSize(P)
    /\ geometry' = GeometryStart
    /\ x' = 0
    /\ zipped' = 0
    /\ returned' = None
    /\ remembered' = IF remembered = None THEN None
                      ELSE Some([remembered[1] EXCEPT !.age = Min(2, @ + 1)])

\* Lines 238-326: the fiber, the claddings, the waveguide; x = grating_start.
GeomFixed ==
    /\ gPc = "build"
    /\ gPc' = "etch"
    /\ geometry' = geometry \o FixedBlocks(gParams)
    /\ x' = GratingStart(gParams)
    /\ zipped' = 0
    /\ UNCHANGED <<gParams, widths, gaps, settings, cell_size, returned,
                   remembered>>

\* One turn of "for width, gap in zip(widths, gaps)" (lines 327-345).
GeomEtch ==
    /\ gPc = "etch"
    /\ zipped < Min(Len(widths), Len(gaps))
    /\ LET width == widths[zipped + 1]
           gap == gaps[zipped + 1]
       IN  /\ geometry' = Append(geometry, EtchBlock(gParams, x, gap))
           /\ x' = x + (width + gap)
    /\ zipped' = zipped + 1
    /\ UNCHANGED <<gPc, gParams, widths, gaps, settings, cell_size, returned,
                   remembered>>

\* initialized=False   (line 411)
InitializedAtReturn == FALSE

\* The dict the call returns (lines 400-413), as far as the model follows it.
ResultDict(geom) ==
    [ cell_size |-> cell_size, geometry |-> geom, settings |-> settings,
      fiber_port_center |-> FiberPortCenter(gParams),
      initialized |-> InitializedAtReturn ]

\* After the loop: the substrate (lines 348-354), the simulation object and
\* the return.  The model may remember the arguments and the result of a call.
GeomReturn ==
    /\ gPc = "etch"
    /\ zipped = Min(Len(widths), Len(gaps))
    /\ gPc' = "idle"
    /\ geometry' = Append(geometry, SubstrateBlock(gParams))
    /\ returned' = Some(ResultDict(geometry'))
    /\ \/ remembered' = remembered
       \/ remembered' = Some([args |-> gParams, result |-> ResultDict(geometry'),
                               age |-> 0])
    /\ UNCHANGED <<gParams, widths, gaps, settings, cell_size, x, zipped>>

GeomCall == (\E P \in GeomParams : GeomBegin(P)) /\ UNCHANGED <<runVars, sweepVars, plotVars, eigenVars>>
GeomBuild == GeomFixed /\ UNCHANGED <<runVars, sweepVars, plotVars, eigenVars>>
GeomLoop == GeomEtch /\ UNCHANGED <<runVars, sweepVars, plotVars, eigenVars>>
GeomDone == GeomReturn /\ UNCHANGED <<runVars, sweepVars, plotVars, eigenVars>>

GeomNext ==
    \/ GeomCall
    \/ GeomBuild
    \/ GeomLoop
    \/ GeomDone

-----------------------------------------------------------------------------
(* get_port_1D_eigenmode  (get_simulation_fiber.py 416-491) *)

\* The dicts the calls are made on, and the calls made on each.
MaxDicts == 2
MaxEigenCalls == 3
Dicts == 1..MaxDicts

\* Each dict is one get_simulation_fiber returned: initialized = False
\* (line 411).
EigenInit ==
    /\ simDicts = [d \in Dicts |-> [initialized |-> InitializedAtReturn]]
    /\ ePc = "idle"
    /\ eCur = [dict |-> 0, band_num |-> 0]
    /\ eCalls = [d \in Dicts |-> 0]
    /\ initSimCalls = [d \in Dicts |-> 0]
    /\ initSimDuring = [d \in Dicts |-> {}]
    /\ solves = [d \in Dicts |-> 0]
    /\ solvedUninit = [d \in Dicts |-> FALSE]

\* A call get_port_1D_eigenmode(sim_dict, band_num, ...): lines 431-443 read
\* the simulation, the source and the monitors.
EigenCall(d, band_num) ==
    /\ ePc = "idle"
    /\ eCalls[d] < MaxEigenCalls
    /\ eCalls' = [eCalls EXCEPT ![d] = @ + 1]
    /\ eCur' = [dict |-> d, band_num |-> band_num]
    /\ ePc' = "solve"
    /\ UNCHANGED <<simDicts, initSimCalls, initSimDuring, solves, solvedUninit>>

\* (mutant) the flag is not set after init_sim.
InitIfNeededFlagForgotten ==
    /\ ePc = "solve"
    /\ IF simDicts[eCur.dict].initialized = FALSE
       THEN /\ initSimCalls' = [initSimCalls EXCEPT ![eCur.dict] = @ + 1]
            /\ initSimDuring' = [initSimDuring EXCEPT
                                    ![eCur.dict] = @ \cup {eCalls[eCur.dict]}]
            /\ simDicts' = simDicts
       ELSE UNCHANGED <<simDicts, initSimCalls, initSimDuring>>
    /\ ePc' = "waveguide"
    /\ UNCHANGED <<eCur, eCalls, solves, solvedUninit>>

\* Lines 446-448: init_sim and the flag, when the flag is False.
InitIfNeeded ==
    /\ ePc = "solve"
    /\ IF simDicts[eCur.dict].initialized = FALSE
       THEN /\ initSimCalls' = [initSimCalls EXCEPT ![eCur.dict] = @ + 1]
            /\ initSimDuring' = [initSimDuring EXCEPT
                                    ![eCur.dict] = @ \cup {eCalls[eCur.dict]}]
            /\ simDicts' = [simDicts EXCEPT ![eCur.dict].initialized = TRUE]
       ELSE UNCHANGED <<simDicts, initSimCalls, initSimDuring>>
    /\ ePc' = "waveguide"
    /\ UNCHANGED <<eCur, eCalls, solves, solvedUninit>>

\* sim.init_sim() raises (line 447): the flag is not set, and the exception
\* leaves get_port_1D_eigenmode; nothing in the source catches it.
InitSimRaises ==
    /\ ePc = "solve"
    /\ simDicts[eCur.dict].initialized = FALSE
    /\ initSimCalls' = [initSimCalls EXCEPT ![eCur.dict] = @ + 1]
    /\ initSimDuring' = [initSimDuring EXCEPT
                            ![eCur.dict] = @ \cup {eCalls[eCur.dict]}]
    /\ ePc' = "error"
    /\ UNCHANGED <<simDicts, eCur, eCalls, solves, solvedUninit>>

\* One sim.get_eigenmode(...) (lines 451-459 and 468-476).
GetEigenmode(d) ==
    /\ solves' = [solves EXCEPT ![d] = @ + 1]
    /\ solvedUninit' = [solvedUninit EXCEPT
                           ![d] = @ \/ ~simDicts[d].initialized]

\* The waveguide mode (lines 451-465).
SolveWaveguide ==
    /\ ePc = "waveguide"
    /\ GetEigenmode(eCur.dict)
    /\ ePc' = "fiber"
    /\ UNCHANGED <<simDicts, eCur, eCalls, initSimCalls, initSimDuring>>

\* The fiber mode and the return (lines 468-491).
SolveFiber ==
    /\ ePc = "fiber"
    /\ GetEigenmode(eCur.dict)
    /\ ePc' = "idle"
    /\ UNCHANGED <<simDicts, eCur, eCalls, initSimCalls, initSimDuring>>

EigenStart ==
    /\ \E d \in Dicts, band_num \in {1, 2} : EigenCall(d, band_num)
    /\ UNCHANGED <<runVars, sweepVars, plotVars, geomVars>>
EigenPrepare == InitIfNeeded /\ UNCHANGED <<runVars, sweepVars, plotVars, geomVars>>
EigenFail == InitSimRaises /\ UNCHANGED <<runVars, sweepVars, plotVars, geomVars>>
EigenWaveguide == SolveWaveguide /\ UNCHANGED <<runVars, sweepVars, plotVars, geomVars>>
EigenFiber == SolveFiber /\ UNCHANGED <<runVars, sweepVars, plotVars, geomVars>>

EigenNext ==
    \/ EigenStart
    \/ EigenPrepare
    \/ EigenFail
    \/ EigenWaveguide
    \/ EigenFiber

-----------------------------------------------------------------------------
(* Specifications *)

\* The variables of a part that a specification does not exercise.
RunIdle == calls = <<>> /\ spawned = <<>>

SweepIdle ==
    /\ cpuCount = 1
    /\ poolPc = "idle"
    /\ nextTask = 1
    /\ worker = [w \in 1..MaxCpu |-> 0]
    /\ taskStatus = [t \in Tasks |-> "pending"]
    /\ launches = [t \in Tasks |-> 0]
    /\ taskCmd = [t \in Tasks |-> <<>>]
    /\ exitCode = [t \in Tasks |-> -1]
    /\ files = {}

PlotIdle ==
    /\ plotFn = "none"
    /\ plotPc = "idle"
    /\ dir = <<>>
    /\ pending = {}
    /\ visited = <<>>
    /\ fiber_xpositions = <<>>
    /\ s21_max = <<>>
    /\ curves = <<>>
    /\ wavelength_points = 0

EigenIdle ==
    /\ simDicts = [d \in Dicts |-> [initialized |-> FALSE]]
    /\ ePc = "none"
    /\ eCur = [dict |-> 0, band_num |-> 0]
    /\ eCalls = [d \in Dicts |-> 0]
    /\ initSimCalls = [d \in Dicts |-> 0]
    /\ initSimDuring = [d \in Dicts |-> {}]
    /\ solves = [d \in Dicts |-> 0]
    /\ solvedUninit = [d \in Dicts |-> FALSE]

InitRun == RunInit /\ SweepIdle /\ PlotIdle /\ GeomInit /\ EigenIdle

SpecRun == InitRun /\ [][RunCall]_vars

InitSweep == SweepInit /\ RunIdle /\ PlotIdle /\ GeomInit /\ EigenIdle

SpecSweep == InitSweep /\ [][SweepNext]_vars

InitPlot == PlotInit /\ RunIdle /\ SweepIdle /\ GeomInit /\ EigenIdle

SpecPlot == InitPlot /\ [][PlotNext]_vars

InitGeom == GeomInit /\ RunIdle /\ SweepIdle /\ PlotIdle /\ EigenIdle

SpecGeom == InitGeom /\ [][GeomNext]_vars

InitEigen == EigenInit /\ RunIdle /\ SweepIdle /\ PlotIdle /\ GeomInit

SpecEigen == InitEigen /\ [][EigenNext]_vars

-----------------------------------------------------------------------------
(* Claims *)

\* C1: every call run(key, value, ncores) spawns exactly one command, and
\* that command starts the engine through the launcher mpirun with -np equal
\* to the call's ncores and has exactly one override, --<key>=<value>, made of
\* the call's key and value.
C1_RunSpawnsOneCommand ==
    /\ Len(spawned) = Len(calls)
    /\ \A i \in 1..Len(calls) :
          /\ Len(spawned[i]) = 6
          /\ SubSeq(spawned[i], 1, 2) = <<"mpirun", "-np">>
          /\ spawned[i][3] = ToString(calls[i].ncores)
          /\ SubSeq(spawned[i], 4, 5) = <<"python", "fiber.py">>
          /\ spawned[i][6] =
                "--" \o calls[i].key \o "=" \o ToString(calls[i].value)

\* Two calls were made whose worker counts differ from the default and from
\* each other.
C1_Witness ==
    /\ Len(calls) = 2
    /\ calls[1].ncores = 16
    /\ calls[2].ncores = 1
    /\ calls[1].key # calls[2].key
    /\ calls[2].value = -5


C3_FailuresNotRetried ==
    /\ \A t \in Tasks : launches[t] <= 1
    /\ \A t \in Tasks :
          taskStatus[t] \in {"spawned", "exited", "returned"} => launches[t] = 1
    /\ poolPc = "done" =>
          \A t \in Tasks : launches[t] = 1 /\ taskStatus[t] = "returned"
    /\ poolPc = "mapping" =>
          \/ ENABLED SweepDispatch
          \/ ENABLED SweepSpawn
          \/ ENABLED SweepExit
          \/ ENABLED SweepReturn
          \/ ENABLED SweepFinish
    /\ (/\ poolPc = "mapping"
        /\ nextTask <= NumTasks
        /\ \E w \in 1..cpuCount : worker[w] = 0) => ENABLED SweepDispatch
    /\ (poolPc = "mapping" /\ AllReturned) => ENABLED SweepFinish

\* The sweep finished although its first run failed and a later one too.
C3_Witness ==
    /\ poolPc = "done"
    /\ exitCode[1] = 1
    /\ exitCode[3] = 1
    /\ exitCode[NumTasks] = 0
    /\ \A t \in Tasks : launches[t] = 1

\* C9: the core-count sweep launches one run per element of ncores_sweep and
\* the run for element n starts the engine with n worker processes, so the
\* runs use pairwise different worker counts.
\* (Stated as the original claim; the sweep of the source violates it.)
C9_WorkerCountIsSweepElement ==
    /\ \A t \in Tasks :
          launches[t] > 0 => taskCmd[t][3] = ToString(ncores_sweep[t])
    /\ \A t \in Tasks, u \in Tasks :
          (launches[t] > 0 /\ launches[u] > 0 /\ t # u)
              => taskCmd[t][3] # taskCmd[u][3]


\* The settings files of the directory that share the base filename of a
\* result file, and the result files that cannot be read as a pair.
Companions(csv) ==
    { y \in Glob(dir, "yml") :
        SubSeq(y, 1, Len(y) - 1) = SubSeq(csv, 1, Len(csv) - 1) }

Unreadable(csv) ==
    \/ Companions(csv) = {}
    \/ \E y \in Companions(csv) : ~dir[y].ok
    \/ ~dir[csv].ok

BadCsv == {n \in Glob(dir, "csv") : Unreadable(n)}

\* C4: in both plotting functions, a result file whose settings file is
\* missing or malformed, or that is malformed itself, makes the function end
\* in an error: the plot is never shown, the loop cannot end without meeting
\* such a file, no such file is ever processed, and after the error nothing
\* more happens (no later pair is processed).
C4_ReadFailurePropagates ==
    /\ BadCsv # {} => plotPc # "shown"
    /\ (BadCsv # {} /\ plotPc = "loop") => BadCsv \cap pending # {}
    /\ Range(visited) \cap BadCsv = {}
    /\ plotPc = "error" => ~ENABLED PlotNext

\* The first file met was unreadable and a readable pair was still to come.
C4_Witness ==
    /\ plotPc = "error"
    /\ visited = <<>>
    /\ fiber_xpositions = <<>>
    /\ \E n \in pending : ~Unreadable(n)

\* C5: when every pair was readable, after the loop fiber_xpositions and
\* s21_max have the length of the number of .csv files, and their i-th
\* entries come from the same pair: the fiber_xposition of the settings file
\* with the base filename of the i-th result file, and the maximum of
\* 10*log10 of that result file's s21m column.
C5_PairsByBaseName ==
    plotPc = "shown" =>
        /\ Len(fiber_xpositions) = Cardinality(Glob(dir, "csv"))
        /\ Len(s21_max) = Cardinality(Glob(dir, "csv"))
        /\ Len(visited) = Cardinality(Glob(dir, "csv"))
        /\ \A i \in 1..Len(visited) :
              /\ \A y \in Companions(visited[i]) :
                    fiber_xpositions[i] = dir[y].fiber_xposition
              /\ \E k \in 1..Len(dir[visited[i]].s21m) :
                    /\ s21_max[i] = 10 * dir[visited[i]].s21m[k][2]
                    /\ \A j \in 1..Len(dir[visited[i]].s21m) :
                          dir[visited[i]].s21m[j][2] <= dir[visited[i]].s21m[k][2]

\* Two pairs with different settings and different maxima were plotted.
C5_Witness ==
    /\ plotPc = "shown"
    /\ Len(visited) = 2
    /\ fiber_xpositions[1] # fiber_xpositions[2]
    /\ s21_max[1] # s21_max[2]


\* C6: geometry construction is deterministic in its parameters: a call
\* whose arguments equal those of an earlier call returns the same cell size,
\* the same shape list and the same settings record, whatever calls were made
\* before or in between.
C6_SameArgumentsSameResult ==
    (/\ gPc = "idle"
     /\ returned # None
     /\ remembered # None
     /\ remembered[1].age > 0
     /\ remembered[1].args = gParams)
        => /\ returned[1].cell_size = remembered[1].result.cell_size
           /\ returned[1].geometry = remembered[1].result.geometry
           /\ returned[1].settings = remembered[1].result.settings

\* A call repeated the arguments of a call made at least two calls earlier,
\* with etch blocks in its shape list.
C6_Witness ==
    /\ gPc = "idle"
    /\ returned # None
    /\ remembered # None
    /\ remembered[1].age = 2
    /\ remembered[1].args = gParams
    /\ Len(returned[1].geometry) = 7 + MaxPeriods

\* The number of etch blocks the claim expects: n_periods when widths and
\* gaps are not given, the number of (width, gap) pairs otherwise.
ExpectedEtches ==
    IF gParams.widths = None /\ gParams.gaps = None
    THEN gParams.n_periods
    ELSE Min(Len(widths), Len(gaps))

\* C7: the returned shape list is, in this order, fiber cladding, fiber
\* core, air gap, top cladding, bottom cladding, waveguide core, one etch
\* block per grating period, substrate; so the fiber blocks precede all
\* others and the waveguide core follows the top cladding and precedes every
\* etch block.
C7_ShapeOrder ==
    (gPc = "idle" /\ returned # None) =>
        LET g == returned[1].geometry
            P == gParams
            n == ExpectedEtches
        IN  /\ Len(g) = 6 + n + 1
            /\ g[1].material = Medium(P.fiber_nclad)
            /\ g[1].size = <<fiber_clad, hfiber_geom>>
            /\ g[1].rot = -P.fiber_angle_deg
            /\ g[2].material.epsilon =
                  P.fiber_numerical_aperture * P.fiber_numerical_aperture
                  + P.fiber_nclad * P.fiber_nclad
            /\ g[2].size = <<P.fiber_core_diameter, hfiber_geom>>
            /\ g[2].rot = -P.fiber_angle_deg
            /\ g[3].material = Medium(AirIndex)
            /\ g[3].size = <<Inf, P.air_gap_thickness>>
            /\ g[4].material = Medium(P.ncladtop)
            /\ g[4].size = <<Inf, P.core_thickness + P.top_clad_thickness>>
            /\ g[5].material = Medium(P.ncladbottom)
            /\ g[5].size = <<Inf, P.bottom_clad_thickness>>
            /\ g[6].material = Medium(P.ncore)
            /\ g[6].size = <<Inf, P.core_thickness>>
            /\ \A k \in 1..n :
                  /\ g[6 + k].material = Medium(P.ncladtop)
                  /\ g[6 + k].size[2] = P.etch_depth
                  /\ g[6 + k].size[1] # Inf
            /\ g[7 + n].material = Medium(P.nsubstrate)
            /\ g[7 + n].size = <<Inf, P.pml_thickness + P.substrate_thickness>>

\* A call without widths and gaps returned, with n_periods etch blocks.
C7_Witness ==
    /\ gPc = "idle"
    /\ returned # None
    /\ gParams.widths = None
    /\ gParams.gaps = None
    /\ gParams.n_periods = MaxPeriods
    /\ Len(returned[1].geometry) = 7 + MaxPeriods

Left(b) == b.center[1] - Half(b.size[1])
Right(b) == b.center[1] + Half(b.size[1])
Top(b) == b.center[2] + Half(b.size[2])

\* C8: with grating_start = -fiber_xposition, the k-th etch block
\* (k = 0..n-1) spans from grating_start + sum over j<k of (width_j + gap_j)
\* to that value plus gap_k, is gap_k wide and etch_depth high, and its top
\* edge is the top of the waveguide core; for positive widths and gaps no
\* two etch blocks overlap and block k+1 starts exactly width_k after the
\* end of block k.
C8_EtchOffsets ==
    (gPc = "etch" \/ (gPc = "idle" /\ returned # None)) =>
        LET etch(k) == geometry[7 + k]
            start(k) == -gParams.fiber_xposition
                        + SumSeq(widths, k) + SumSeq(gaps, k)
        IN  /\ \A k \in 0..(zipped - 1) :
                  /\ Left(etch(k)) = start(k)
                  /\ Right(etch(k)) = start(k) + gaps[k + 1]
                  /\ etch(k).size = <<gaps[k + 1], gParams.etch_depth>>
                  /\ Top(etch(k)) = Top(geometry[6])
            /\ (\A i \in 1..zipped : widths[i] > 0 /\ gaps[i] > 0) =>
                  /\ \A j \in 0..(zipped - 1), k \in 0..(zipped - 1) :
                        j < k => Right(etch(j)) <= Left(etch(k))
                  /\ \A k \in 0..(zipped - 2) :
                        Left(etch(k + 1)) - Right(etch(k)) = widths[k + 1]

\* The loop placed MaxPeriods etch blocks from given widths that differ.
C8_Witness ==
    /\ gPc = "etch"
    /\ zipped = MaxPeriods
    /\ gParams.widths # None
    /\ gParams.gaps # None
    /\ widths[1] # widths[2]
    /\ gParams.fiber_xposition # 0


\* C10: for a dict get_simulation_fiber returned, over any sequence of
\* get_port_1D_eigenmode calls init_sim is invoked exactly once, during the
\* first call and before any eigenmode is solved; every eigenmode is solved
\* with initialized True; and initialized never goes back from True to False.
C10_State ==
    \A d \in Dicts :
        /\ initSimCalls[d] <= 1
        /\ initSimDuring[d] \subseteq {1}
        /\ simDicts[d].initialized => initSimCalls[d] = 1
        /\ solves[d] > 0 => (initSimCalls[d] = 1 /\ simDicts[d].initialized)
        /\ ~solvedUninit[d]
        /\ (eCalls[d] > 0 /\ ~(ePc = "solve" /\ eCur.dict = d))
              => initSimCalls[d] = 1

C10_Step ==
    \A d \in Dicts : simDicts[d].initialized => simDicts'[d].initialized

C10_InitSimOnce == []C10_State /\ [][C10_Step]_vars

\* Two complete calls were made on one dict, and a call on another.
C10_Witness ==
    /\ ePc = "idle"
    /\ eCalls[1] = 2
    /\ solves[1] = 4
    /\ initSimCalls[1] = 1
    /\ eCalls[2] = 1


\* C11: in every call, the fiber_port_y that fiber_port_x_offset_from_angle
\* is computed from (line 177) is the y coordinate of fiber_port_center
\* (line 212), so the cell width sxy of cell_size is the one that offset at
\* the port's own height gives.
C11_OffsetFromPortY ==
    gPc # "idle" =>
        /\ FiberPortYForOffset(gParams) = FiberPortCenter(gParams)[2]
        /\ cell_size[1] =
               Half(7 * gParams.fiber_core_diameter)
               + 2 * gParams.pml_thickness
               + 2 * Abs(FiberPortCenter(gParams)[2]
                         * Tan(gParams.fiber_angle_deg))

=============================================================================
